---- MODULE Spec2Model ----
(***************************************************************************)
(* A model of PropSWrapper (src/baseline_system/parsers/props_wrapper.py): *)
(* the conversion of a dependency tree, a PropS proposition graph and the  *)
(* recognizer's named entities into an OKR {Sentence, Entities,            *)
(* Predicates}.                                                            *)
(*                                                                         *)
(* Conventions.  Token indices are 1-based in the dependency tree and in   *)
(* the PropS words (w.index, node.id) and 0-based in the OKR index tuples  *)
(* and in the recognizer's spans, exactly as in the source.  A string that *)
(* the source builds with " ".join is the sequence of its words.  The word *)
(* of token i is Word(i); a symbol is the string "P<n>" or "A<n>".         *)
(*                                                                         *)
(* The inputs.  The words of a sentence hold no blank, the words of a      *)
(* PropS node (node.text) are words of its phrase (node.str), and the      *)
(* nodes of a graph are at different words.                                *)
(***************************************************************************)
EXTENDS Integers, Sequences, FiniteSets, TLC

\* the nodes of a graph of the first family of inputs
MaxNode == 3
\* the words of a sentence of the second family of inputs
MaxTok == 4
Tokens == 1..MaxTok

VARIABLES
    get_implicits, get_zero_args, get_conj,  \* configuration flags
    graph,              \* PropS nodes, in the order of graph.nodes()
    dep_tree,           \* the dependency tree of the sentence
    doc_ents,           \* what the recognizer returns for the sentence
    sentence,
    pred_counter, ent_counter,
    entities, predicates,
    tok_ind_to_symbol,
    predicate_nodes,    \* get_predicates(), a list of node ids
    all_NEs_token_indices,
    pc,                 \* position inside parse()
    todo,               \* predicate nodes parse_okr has still to visit
    issued,             \* history: every symbol a gensym call returned
    calls,              \* history: every get_element_symbol call
    built,              \* history: the nodes parse_predicate was called on
    emitted,            \* history: the predicates _split_entities stored
    parsed              \* history: the instance was used for a sentence before

vars == <<get_implicits, get_zero_args, get_conj, graph, dep_tree, doc_ents,
          sentence, pred_counter, ent_counter, entities, predicates,
          tok_ind_to_symbol, predicate_nodes, all_NEs_token_indices, pc, todo,
          issued, calls, built, emitted, parsed>>

-----------------------------------------------------------------------------
(* Generic helpers *)

Min(S) == CHOOSE x \in S : \A y \in S : x <= y
Max(S) == CHOOSE x \in S : \A y \in S : y <= x

RECURSIVE SortedSeq(_)
\* sorted(S): the elements of a set of integers in ascending order
SortedSeq(S) == IF S = {} THEN <<>> ELSE <<Min(S)>> \o SortedSeq(S \ {Min(S)})

RECURSIVE InsertByKey(_, _)
\* insert pair e = <<key, item>> after every pair with a key <= its own
InsertByKey(sorted, e) ==
    IF sorted = <<>> THEN <<e>>
    ELSE IF Head(sorted)[1] <= e[1]
         THEN <<Head(sorted)>> \o InsertByKey(Tail(sorted), e)
         ELSE <<e>> \o sorted

RECURSIVE SortedByKey(_)
\* Python's sorted(pairs, key = first component): ascending and stable
SortedByKey(pairs) ==
    IF pairs = <<>> THEN <<>>
    ELSE InsertByKey(SortedByKey(SubSeq(pairs, 1, Len(pairs) - 1)),
                     pairs[Len(pairs)])

\* dict assignment d[k] = v
Put(d, k, v) == [x \in DOMAIN d \cup {k} |-> IF x = k THEN v ELSE d[x]]

EmptyMap == [x \in {} |-> x]

\* the members of S in the order in which sequence `order` lists them
InOrder(S, order) == SelectSeq(order, LAMBDA x : x \in S)

Range(s) == {s[i] : i \in DOMAIN s}

\* the permutations of 1..k, for k up to the number of words of a sentence
PermTable ==
    [k \in 0..Max({MaxNode, MaxTok}) |->
        {p \in [1..k -> 1..k] : \A x \in 1..k : \E i \in 1..k : p[i] = x}]

\* the orders in which the members of sequence s can be listed
Orders(s) == {[i \in DOMAIN s |-> s[p[i]]] : p \in PermTable[Len(s)]}

-----------------------------------------------------------------------------
(* Strings the source formats *)

Word(i) == "w" \o ToString(i)
\* '{{{}}}'.format(symbol)
Placeholder(symbol) == "{" \o symbol \o "}"

-----------------------------------------------------------------------------
(* The symbol table.  The operators below work on a record W of the        *)
(* instance's mutable fields (tab is tok_ind_to_symbol); field sym holds   *)
(* the value the last call returned and field local the local variables of *)
(* the running method.  A record is passed on from call to call, in the    *)
(* order of the calls in the source.                                       *)

\* the symbol generated is the value returned
issue(W, symbol) == [W EXCEPT !.sym = symbol, !.issued = Append(@, symbol)]

\* _gensym_pred without the increment of the counter
gensym_pred_mutant(W) == issue(W, "P" \o ToString(W.pred_counter))

\* _gensym_pred: "P{}".format(self.pred_counter) after the increment
gensym_pred(W) ==
    issue([W EXCEPT !.pred_counter = @ + 1], "P" \o ToString(W.pred_counter + 1))

\* _gensym_ent: "A{}".format(self.ent_counter) after the increment
gensym_ent(W) ==
    issue([W EXCEPT !.ent_counter = @ + 1], "A" \o ToString(W.ent_counter + 1))

\* the symbol_generator argument: "P" is _gensym_pred, "A" is _gensym_ent
generate(W, symbol_generator) ==
    IF symbol_generator = "P" THEN gensym_pred(W) ELSE gensym_ent(W)

\* line 81: the symbol generated is bound to the index
bind(G, tok_ind) == [G EXCEPT !.tab = Put(@, tok_ind, G.sym)]

\* line 82: the symbol of the index is returned.  W is the record before the
\* call and W1 the record after line 81; the history records the call: the
\* index asked for, the generator passed, the symbol returned and how many
\* symbols were generated
return_symbol(W, W1, tok_ind, symbol_generator) ==
    [W1 EXCEPT !.sym = W1.tab[tok_ind],
               !.calls = Append(@, [ind |-> tok_ind, kind |-> symbol_generator,
                                    sym |-> W1.tab[tok_ind],
                                    made |-> Len(W1.issued) - Len(W.issued)])]

\* get_element_symbol without the test of the table: every call generates
get_element_symbol_mutant(W, tok_ind, symbol_generator) ==
    return_symbol(W, bind(generate(W, symbol_generator), tok_ind), tok_ind,
                  symbol_generator)

get_element_symbol(W, tok_ind, symbol_generator) ==
    return_symbol(W,
                  IF tok_ind \notin DOMAIN W.tab
                  THEN bind(generate(W, symbol_generator), tok_ind)
                  ELSE W,
                  tok_ind, symbol_generator)

get_entity_symbol(W, tok_ind) == get_element_symbol(W, tok_ind, "A")

\* a local variable of the running method takes the value returned
assign(W, name) == [W EXCEPT !.local = Put(@, name, W.sym)]

-----------------------------------------------------------------------------
(* The PropS graph and the dependency tree.  A PropS node is a record      *)
(*   [isPredicate, implicit, conj : BOOLEAN,                               *)
(*    copula : BOOLEAN     (node.text[0].word == COPULA),                  *)
(*    text : set of token indices (the node's own words),                  *)
(*    str  : set of token indices (the words of its whole phrase),         *)
(*    nbrs : set of node ids (node.neighbors(), all relations together)]   *)
(* and the dependency tree is [parent, rel]: the parent's id (0 is ROOT)   *)
(* and the parent_relation of every token.                                 *)

\* dep_node.children / get_children()
children(tree, id) == {j \in DOMAIN tree.parent : tree.parent[j] = id}

RECURSIVE get_dep_height(_, _)
\* ROOT (id 0) is the only node without a parent
get_dep_height(tree, id) ==
    IF id = 0 THEN 0 ELSE 1 + get_dep_height(tree, tree.parent[id])

matching_dep_nodes(tree, node) == {id \in DOMAIN tree.parent : id \in node.text}

\* the matching node of least height; min() returns the first minimal element
\* of the list, and the list is in the order of the ids
lowest(tree, M) ==
    Min({id \in M : \A other \in M :
            get_dep_height(tree, id) <= get_dep_height(tree, other)})

get_dep_node(tree, node) == lowest(tree, matching_dep_nodes(tree, node))

get_node_ind(node) == IF node.isPredicate THEN Min(node.text) ELSE Max(node.text)

AUX_LABELS == {"det", "neg", "aux", "auxpass", "prep", "cc", "conj"}

is_props_dependent(g, pred_node, word_ind) ==
    word_ind \in UNION {g[n].text : n \in pred_node.nbrs}

\* the auxiliary children of dep_node that are no PropS dependents
aux_children(g, tree, pred_node, dep_node) ==
    SortedSeq({c \in children(tree, dep_node) :
                  /\ tree.rel[c] \in AUX_LABELS
                  /\ ~ is_props_dependent(g, pred_node, c)})

\* the bare predicate as a list of dependency nodes: the node, then its
\* auxiliary children
get_mwp(g, tree, pred_node) ==
    <<get_dep_node(tree, pred_node)>>
    \o aux_children(g, tree, pred_node, get_dep_node(tree, pred_node))

\* get_props_neighbors that unwraps one level only: the neighbors of a
\* same-as neighbor are taken as they are
get_props_neighbors_mutant(g, n) ==
    LET all_neighbors == g[n].nbrs
        sameAs_neighbors == {m \in all_neighbors : g[m].implicit /\ g[m].copula}
    IN  (all_neighbors \ sameAs_neighbors)
        \cup UNION {g[m].nbrs : m \in sameAs_neighbors}

RECURSIVE get_props_neighbors(_, _)
get_props_neighbors(g, n) ==
    LET all_neighbors == g[n].nbrs
        sameAs_neighbors == {m \in all_neighbors : g[m].implicit /\ g[m].copula}
    IN  (all_neighbors \ sameAs_neighbors)
        \cup UNION {get_props_neighbors(g, m) : m \in sameAs_neighbors}

\* is_valid_pred without the zero_arg_filter
is_valid_pred_mutant(node, implicits, zero_args, conj) ==
    /\ node.isPredicate
    /\ ~ ((~ implicits) /\ node.implicit)
    /\ ~ ((~ conj) /\ node.conj)

\* is_valid_pred of get_predicates
is_valid_pred(node, implicits, zero_args, conj) ==
    /\ node.isPredicate
    /\ ~ ((~ zero_args) /\ node.nbrs = {})
    /\ ~ ((~ implicits) /\ node.implicit)
    /\ ~ ((~ conj) /\ node.conj)

get_predicates(g, implicits, zero_args, conj) ==
    SelectSeq([i \in 1..Len(g) |-> i],
              LAMBDA n : is_valid_pred(g[n], implicits, zero_args, conj))

\* the text and the index tuple of a sorted list of tokens
words_of(sorted) ==
    << [i \in DOMAIN sorted |-> Word(sorted[i])],
       [i \in DOMAIN sorted |-> sorted[i] - 1] >>

\* the entity text and index tuple of a PropS node: sorted(set(node.str))
node_entity(node) == words_of(SortedSeq(node.str))

IMPLICIT_SYMBOL == << <<"IMPLICIT">>, <<-1>> >>

create_implicit_proposition(arg_symbols) ==
    [BarePredicate |-> IMPLICIT_SYMBOL,
     Template |-> [i \in DOMAIN arg_symbols |-> Placeholder(arg_symbols[i])],
     Head |-> [Surface |-> "IMPLICIT", Lemma |-> "IMPLICIT", POS |-> "IMPLICIT"],
     Arguments |-> arg_symbols]

-----------------------------------------------------------------------------
(* parse_predicate *)

\* a local list of symbols starts empty
new_list(W, name) == [W EXCEPT !.local = Put(@, name, <<>>)]

\* the value returned is appended to the local list
append_symbol(W, name) == [W EXCEPT !.local[name] = Append(@, W.sym)]

RECURSIVE symbols_of(_, _, _, _, _)
\* [get_element_symbol(get_node_ind(node), gen) for node in nodes], the
\* symbols appended to the local list `name`
symbols_of(W, g, nodes, gen, name) ==
    IF nodes = <<>> THEN W
    ELSE symbols_of(append_symbol(get_element_symbol(W, get_node_ind(g[Head(nodes)]),
                                                     gen),
                                  name),
                    g, Tail(nodes), gen, name)

symbol_list(W, g, nodes, gen, name) == symbols_of(new_list(W, name), g, nodes, gen, name)

\* lines 523-529: the whole phrase of the node, under the symbol returned
add_entity(W, node) == [W EXCEPT !.entities = Put(@, W.sym, node_entity(node))]

RECURSIVE add_entities(_, _, _)
\* the loop over dep_entities that closes parse_predicate
add_entities(W, g, nodes) ==
    IF nodes = <<>> THEN W
    ELSE add_entities(add_entity(get_element_symbol(W, get_node_ind(g[Head(nodes)]),
                                                    "A"),
                                 g[Head(nodes)]),
                      g, Tail(nodes))

\* the template without the sort
make_template_mutant(all_template_elements) ==
    [i \in DOMAIN all_template_elements |-> all_template_elements[i][2]]

\* the words of the sorted template elements
words(sorted) == [i \in DOMAIN sorted |-> sorted[i][2]]

\* the template: the words of the bare predicate and the placeholders of the
\* arguments, sorted by token index, joined by " "
make_template(all_template_elements) == words(SortedByKey(all_template_elements))

\* lines 468-469
predicate_items(bare_predicate) ==
    [i \in DOMAIN bare_predicate |-> <<bare_predicate[i], Word(bare_predicate[i])>>]

\* lines 485-492: the placeholders of the nodes, with their token indices
placeholders(g, nodes, symbols) ==
    [i \in DOMAIN nodes |-> <<get_node_ind(g[nodes[i]]), Placeholder(symbols[i])>>]

\* lines 472-474.  `order` is the order in which the set get_props_neighbors
\* returns is iterated
dep_preds(g, pred_nodes, p, order) ==
    SelectSeq(InOrder(get_props_neighbors(g, p), order),
              LAMBDA n : n \in Range(pred_nodes))

\* lines 477-480
dep_entities(g, pred_nodes, p, order) ==
    SelectSeq(InOrder(get_props_neighbors(g, p), order),
              LAMBDA n : n \notin Range(pred_nodes) /\ ~ g[n].implicit)

\* lines 501-516: the record of the predicate
predicate_record(W, g, p, dep_node, bare_predicate, preds, ents) ==
    [BarePredicate |-> words_of(SortedSeq(Range(bare_predicate))),
     Template |-> make_template(predicate_items(bare_predicate)
                                \o placeholders(g, preds, W.local.template_preds)
                                \o placeholders(g, ents, W.local.template_ents)),
     Head |-> [Surface |-> <<Word(dep_node), <<dep_node - 1>>>>,
               Lemma |-> "lemma" \o ToString(p),
               POS |-> "pos" \o ToString(dep_node)],
     Arguments |-> W.local.argument_ents \o W.local.argument_preds]

store_predicate(W, g, tree, p, preds, ents) ==
    [W EXCEPT !.predicates =
        Put(@, W.local.predicate_symbol,
            predicate_record(W, g, p, get_dep_node(tree, g[p]),
                             get_mwp(g, tree, g[p]), preds, ents))]

\* the symbols of the arguments are looked up for the template (lines
\* 484-492) and again for the list of arguments (lines 510-515)
parse_predicate(W, g, tree, pred_nodes, p, order) ==
    LET preds == dep_preds(g, pred_nodes, p, order)
        ents == dep_entities(g, pred_nodes, p, order)
        W1 == assign(get_element_symbol(W, get_node_ind(g[p]), "P"),
                     "predicate_symbol")
        W2 == symbol_list(W1, g, preds, "P", "template_preds")
        W3 == symbol_list(W2, g, ents, "A", "template_ents")
        W4 == symbol_list(W3, g, ents, "A", "argument_ents")
        W5 == symbol_list(W4, g, preds, "P", "argument_preds")
    IN  add_entities(store_predicate(W5, g, tree, p, preds, ents), g, ents)

-----------------------------------------------------------------------------
(* _split_entities.  A named entity is [start, end, root]: the span         *)
(* range(start, end) of 0-based token offsets and the offset of its root.  *)

\* NE_to_indices
NE_to_indices(named_entity) ==
    [i \in 1..(named_entity.end - named_entity.start) |-> named_entity.start + i - 1]

\* NE_to_entity: the entity's text and its range of indices
NE_to_entity(named_entity) ==
    << [i \in 1..(named_entity.end - named_entity.start) |->
           Word(named_entity.start + i)],
       NE_to_indices(named_entity) >>

NEs_token_indices(ents) == UNION {Range(NE_to_indices(e)) : e \in ents}

\* NE_root_ind_to_ent[ind] and tok_ind_to_NE[ind] (the recognizer's spans do
\* not overlap)
NE_root_ind_to_ent(ents, ind) == CHOOSE e \in ents : e.root = ind
tok_ind_to_NE(ents, ind) == CHOOSE e \in ents : ind \in Range(NE_to_indices(e))

\* ret[symbol] = entity, for the symbol a local variable holds
put_ret(W, name, entity) == [W EXCEPT !.ret = Put(@, W.local[name], entity)]

\* self.predicates[key] = record, written while the span of ent_head_symbol
\* is at the token of offset ind
emit(W, ent_head_symbol, ind, key, record) ==
    [W EXCEPT !.predicates = Put(@, key, record),
              !.emitted = @ \cup {[span |-> ent_head_symbol, tok |-> ind + 1,
                                   key |-> key, record |-> record]}]

\* lines 283-295
preposition_record(ent_head_symbol, word, ind, prep_child_symbol) ==
    [BarePredicate |-> <<<<word>>, <<ind>>>>,
     Template |-> <<Placeholder(ent_head_symbol), word,
                    Placeholder(prep_child_symbol)>>,
     Head |-> [Surface |-> word, Lemma |-> word, POS |-> "IN"],
     Arguments |-> <<ent_head_symbol, prep_child_symbol>>]

emit_preposition(W, ent_head_symbol, word, ind) ==
    emit(W, ent_head_symbol, ind, W.local.prep_symbol,
         preposition_record(ent_head_symbol, word, ind, W.local.prep_child_symbol))

\* lines 274-281: the child's word under the child's symbol, and the symbol
\* of the preposition
preposition_symbols(W, ind, prep_child) ==
    LET W1 == assign(get_element_symbol(W, prep_child, "A"), "prep_child_symbol")
        W2 == put_ret(W1, "prep_child_symbol",
                      <<<<Word(prep_child)>>, <<prep_child - 1>>>>)
    IN  assign(get_element_symbol(W2, ind + 1, "P"), "prep_symbol")

\* lines 269-295: a preposition whose sole child is in this span
split_preposition(W, tree, ent_head_symbol, word, ind) ==
    emit_preposition(preposition_symbols(W, ind,
                                         CHOOSE c \in children(tree, ind + 1) : TRUE),
                     ent_head_symbol, word, ind)

\* the items of the pairs <<index, item>>, sorted by the index
items_by_index(pairs) == words(SortedByKey(pairs))

\* lines 307-311: the implicit relation of the new entity and the head, the
\* two ordered by their place in the sentence, under the symbol generated
emit_implicit(W, ent_head_symbol, cur_head_ind, ind) ==
    emit(W, ent_head_symbol, ind, W.sym,
         create_implicit_proposition(
             items_by_index(<< <<ind + 1, W.local.new_ent_symbol>>,
                                 <<cur_head_ind, ent_head_symbol>> >>)))

\* lines 297-311 without the assignment to ret (line 303)
split_implicit_mutant(W, ent_head_symbol, cur_head_ind, word, ind) ==
    LET W1 == assign(get_element_symbol(W, ind + 1, "A"), "new_ent_symbol")
    IN  emit_implicit(gensym_pred(W1), ent_head_symbol, cur_head_ind, ind)

\* lines 297-311: a new entity for the word and an implicit relation to the
\* head
split_implicit(W, ent_head_symbol, cur_head_ind, word, ind) ==
    LET W1 == assign(get_element_symbol(W, ind + 1, "A"), "new_ent_symbol")
        W2 == put_ret(W1, "new_ent_symbol", <<<<word>>, <<ind>>>>)
    IN  emit_implicit(gensym_pred(W2), ent_head_symbol, cur_head_ind, ind)

\* lines 257-259: the named entity under the symbol returned
insert_NE(W, named_entity) ==
    [W EXCEPT !.ret = Put(@, W.sym, NE_to_entity(named_entity)),
              !.NEs_to_insert = @ \ {named_entity}]

\* lines 253-260: the root of a named entity that is not yet inserted
split_NE_root(W, ents, ind) ==
    insert_NE(get_element_symbol(W, ind + 1, "A"), NE_root_ind_to_ent(ents, ind))

\* line 253
is_new_NE_root(W, ents, ind) ==
    /\ \E e \in ents : e.root = ind
    /\ NE_root_ind_to_ent(ents, ind) \in W.NEs_to_insert

\* lines 269-271
is_preposition_in_span(tree, ent_indices, ind) ==
    /\ tree.rel[ind + 1] = "prep"
    /\ Cardinality(children(tree, ind + 1)) = 1
    /\ \A c \in children(tree, ind + 1) : c - 1 \in Range(ent_indices)

\* the body of the loop without the test for a pobj (lines 297-298)
split_token_mutant(W, tree, ents, ent_head_symbol, cur_head_ind, ent_indices, word, ind) ==
    IF ind + 1 = cur_head_ind /\ ent_head_symbol \notin DOMAIN W.ret
    THEN [W EXCEPT !.ret = Put(@, ent_head_symbol, <<<<word>>, <<ind>>>>)]
    ELSE IF is_new_NE_root(W, ents, ind) THEN split_NE_root(W, ents, ind)
    ELSE IF ind \in NEs_token_indices(ents) THEN W
    ELSE IF tree.rel[ind + 1] = "det" THEN W
    ELSE IF is_preposition_in_span(tree, ent_indices, ind)
    THEN split_preposition(W, tree, ent_head_symbol, word, ind)
    ELSE split_implicit(W, ent_head_symbol, cur_head_ind, word, ind)

\* the body of the loop over the tokens of an entity (lines 246-311)
split_token(W, tree, ents, ent_head_symbol, cur_head_ind, ent_indices, word, ind) ==
    IF ind + 1 = cur_head_ind /\ ent_head_symbol \notin DOMAIN W.ret
    THEN [W EXCEPT !.ret = Put(@, ent_head_symbol, <<<<word>>, <<ind>>>>)]
    ELSE IF is_new_NE_root(W, ents, ind) THEN split_NE_root(W, ents, ind)
    ELSE IF ind \in NEs_token_indices(ents) THEN W
    ELSE IF tree.rel[ind + 1] = "det" THEN W
    ELSE IF is_preposition_in_span(tree, ent_indices, ind)
    THEN split_preposition(W, tree, ent_head_symbol, word, ind)
    ELSE IF ~ (/\ tree.rel[ind + 1] = "pobj"
               /\ tree.parent[ind + 1] - 1 \in Range(ent_indices))
    THEN split_implicit(W, ent_head_symbol, cur_head_ind, word, ind)
    ELSE W

RECURSIVE split_tokens(_, _, _, _, _, _, _)
\* for word, ind in zip(ent_str.split(" "), ent_indices), from position i on
split_tokens(W, tree, ents, ent_head_symbol, cur_head_ind, entity, i) ==
    IF i > Len(entity[1]) \/ i > Len(entity[2]) THEN W
    ELSE split_tokens(split_token(W, tree, ents, ent_head_symbol, cur_head_ind,
                                  entity[2], entity[1][i], entity[2][i]),
                      tree, ents, ent_head_symbol, cur_head_ind, entity, i + 1)

\* ent_symbol_to_head_ind[symbol] of the table as it was when the split began
ent_symbol_to_head_ind(tab, symbol) == CHOOSE k \in DOMAIN tab : tab[k] = symbol

\* lines 237-241: a head inside a named entity is replaced by the named
\* entity
replace_by_NE(W, ents, ent_head_symbol, cur_head_ind) ==
    IF cur_head_ind - 1 \in NEs_token_indices(ents)
    THEN [W EXCEPT !.ret = Put(@, ent_head_symbol,
                               NE_to_entity(tok_ind_to_NE(ents, cur_head_ind - 1))),
                   !.NEs_to_insert = @ \ {tok_ind_to_NE(ents, cur_head_ind - 1)}]
    ELSE W

\* the tokens of the span of ent_head_symbol, whose head is cur_head_ind
split_span(W, tree, ents, ent_head_symbol, cur_head_ind) ==
    split_tokens(replace_by_NE(W, ents, ent_head_symbol, cur_head_ind),
                 tree, ents, ent_head_symbol, cur_head_ind,
                 W.entities[ent_head_symbol], 1)

\* the body of the loop over the entities (lines 234-311)
split_entity(W, tree, ents, tab0, ent_head_symbol) ==
    split_span(W, tree, ents, ent_head_symbol,
               ent_symbol_to_head_ind(tab0, ent_head_symbol))

RECURSIVE split_loop(_, _, _, _, _)
split_loop(W, tree, ents, tab0, order) ==
    IF order = <<>> THEN W
    ELSE split_loop(split_entity(W, tree, ents, tab0, Head(order)),
                    tree, ents, tab0, Tail(order))

\* `order` is the order in which self.entities.iteritems() yields the keys;
\* the result's field ret is the value returned
split_entities(W, tree, ents, order) ==
    split_loop([W EXCEPT !.ret = EmptyMap, !.NEs_to_insert = ents],
               tree, ents, W.tab, order)

-----------------------------------------------------------------------------
(* add_modifiers_as_implicits *)

\* lines 170-174: the whole phrase of the node, under the symbol returned
add_props_node_to_entities(W, node) ==
    add_entity(get_entity_symbol(get_entity_symbol(W, get_node_ind(node)),
                                 get_node_ind(node)),
               node)

\* lines 153-154: ent and modifier, sorted by their index
ordered_args(g, ent, modifier) ==
    items_by_index(<< <<get_node_ind(g[ent]), ent>>,
                        <<get_node_ind(g[modifier]), modifier>> >>)

\* lines 159-161: the implicit proposition of the two symbols, under imp_sym
add_implicit(W) ==
    [W EXCEPT !.predicates =
        Put(@, W.local.imp_sym, create_implicit_proposition(W.local.arg_symbols))]

\* lines 156-161, for the ordered arguments
add_relation(W, g, modifier, ordered) ==
    LET W1 == add_props_node_to_entities(W, g[modifier])
        W2 == assign(gensym_pred(W1), "imp_sym")
    IN  add_implicit(symbol_list(W2, g, ordered, "A", "arg_symbols"))

\* the body of the loop over the modifiers of ent (lines 152-161)
add_modifier(W, g, ent, modifier) ==
    add_relation(W, g, modifier, ordered_args(g, ent, modifier))

RECURSIVE add_modifiers(_, _, _, _)
add_modifiers(W, g, ent, modifiers) ==
    IF modifiers = <<>> THEN W
    ELSE add_modifiers(add_modifier(W, g, ent, Head(modifiers)), g, ent,
                       Tail(modifiers))

\* the modifiers of ent, in the order in which the neighbor set is iterated
modifiers_of(g, all_NEs, ent, order) ==
    InOrder({mod \in get_props_neighbors(g, ent) :
                /\ ~ g[mod].isPredicate
                /\ ~ g[mod].implicit
                /\ get_node_ind(g[mod]) - 1 \notin all_NEs},
            order)

\* line 145 and the loop of lines 146-161; W.sym is the symbol of ent
add_modifiers_of(W, g, all_NEs, ent, order) ==
    IF W.sym \in DOMAIN W.entities
    THEN add_modifiers(W, g, ent, modifiers_of(g, all_NEs, ent, order))
    ELSE W

RECURSIVE add_modifiers_as_implicits(_, _, _, _, _)
\* the loop over graph.nodes(), from node ent on
add_modifiers_as_implicits(W, g, all_NEs, ent, order) ==
    IF ent > Len(g) THEN W
    ELSE IF get_node_ind(g[ent]) \notin DOMAIN W.tab
    THEN add_modifiers_as_implicits(W, g, all_NEs, ent + 1, order)
    ELSE add_modifiers_as_implicits(
             add_modifiers_of(get_entity_symbol(W, get_node_ind(g[ent])),
                              g, all_NEs, ent, order),
             g, all_NEs, ent + 1, order)

-----------------------------------------------------------------------------
(* The sentences parsed.  parseSentences and the recognizer are external:  *)
(* what they return for a sentence is an input, drawn from two bounded     *)
(* families.                                                               *)

Rels == {"det", "prep", "pobj", "dep"}

node(isPredicate, implicit, conj, copula, text, str, nbrs) ==
    [isPredicate |-> isPredicate, implicit |-> implicit, conj |-> conj,
     copula |-> copula, text |-> text, str |-> str, nbrs |-> nbrs]

\* Family 1, graphs: a sentence of MaxNode words, node i is the word of token
\* i; the first node is a predicate; arcs lead from the first node to the
\* next two nodes and from any other node to the next; a node is an entity,
\* a predicate, a conjunction predicate or an implicit copula; the tree is a
\* chain of prepositions under token 1.
Nodes == 1..MaxNode

Entity == <<FALSE, FALSE, FALSE, FALSE>>
Kinds ==
    {Entity, <<TRUE, FALSE, FALSE, FALSE>>, <<TRUE, FALSE, TRUE, FALSE>>,
     <<TRUE, TRUE, FALSE, TRUE>>}

ChainTree ==
    [parent |-> [i \in Nodes |-> i - 1],
     rel |-> [i \in Nodes |-> IF i = 1 THEN "dep" ELSE "prep"]]

GraphInputs ==
    {[g |-> [i \in Nodes |->
                node(kind[i][1], kind[i][2], kind[i][3], kind[i][4], {i}, {i},
                     {i + d : d \in nbrs[i]} \cap (IF i = 1 THEN Nodes ELSE {i + 1})
                        \cap Nodes)],
      tree |-> ChainTree,
      ents |-> {}] :
        kind \in {k \in [Nodes -> Kinds] : k[1] # Entity},
        nbrs \in [Nodes -> SUBSET {1, 2}]}

\* the relations of the words of a sentence of MaxTok words: the first word
\* is the root; a determiner precedes the word it belongs to; a pobj follows
\* a preposition; at most one determiner and one preposition
Prev(rel, i) == IF rel[i - 1] = "det" THEN i - 2 ELSE i - 1

Labelings ==
    {rel \in [Tokens -> Rels] :
        /\ rel[1] = "dep"
        /\ \A i \in Tokens :
              /\ rel[i] = "det" => (i < MaxTok /\ rel[i + 1] # "det")
              /\ rel[i] = "pobj" => rel[Prev(rel, i)] = "prep"
        /\ Cardinality({i \in Tokens : rel[i] = "det"}) <= 1
        /\ Cardinality({i \in Tokens : rel[i] = "prep"}) <= 1}

\* the dependency trees: the first word hangs from ROOT, a determiner from
\* the next word, a pobj from the preposition before it, any other word from
\* the word before it (determiners skipped) or from the first word
Trees ==
    {[parent |-> [i \in Tokens |->
                     IF i = 1 THEN 0
                     ELSE IF rel[i] = "det" THEN i + 1
                     ELSE IF rel[i] = "pobj" \/ ~ up[i] THEN Prev(rel, i)
                     ELSE 1],
      rel |-> rel] :
        rel \in Labelings, up \in [Tokens -> BOOLEAN]}

\* the recognizer's answers: nothing, or one entity of two tokens after the
\* first word, its root the second of the two
EntSets ==
    {{}} \cup {{[start |-> s, end |-> s + 2, root |-> s + 1]} :
                  s \in 1..(MaxTok - 2)}

\* Family 2, spans: a sentence of MaxTok words whose first word is a
\* predicate with two entity arguments, or with one argument that has a
\* modifier; the two entities are different later words; the phrase of an
\* entity is the whole sentence, or the sentence without the predicate's
\* word; any tree; any answer of the recognizer.  Two arguments of one
\* predicate are interchangeable, so the first is taken to be the earlier
\* word.
SpanInputs ==
    {[g |-> << node(TRUE, FALSE, FALSE, FALSE, {1}, {1},
                    IF x.modifier THEN {2} ELSE {2, 3}),
               node(FALSE, FALSE, FALSE, FALSE, {x.e1},
                    IF x.whole THEN Tokens ELSE Tokens \ {1},
                    IF x.modifier THEN {3} ELSE {}),
               node(FALSE, FALSE, FALSE, FALSE, {x.e2},
                    IF x.whole THEN Tokens ELSE Tokens \ {1}, {}) >>,
      tree |-> x.tree,
      ents |-> x.ents] :
        x \in {y \in [e1 : Tokens \ {1}, e2 : Tokens \ {1}, modifier : BOOLEAN,
                      whole : BOOLEAN, tree : Trees, ents : EntSets] :
                   y.e1 # y.e2 /\ (y.modifier \/ y.e1 < y.e2)}}

\* Family 3, a graph and a tree that disagree: a graph of family 1 whose
\* second node is a qualifying predicate at a word the dependency tree has
\* no node for
InconsistentInputs(implicits, zero_args, conj) ==
    {[g |-> [input.g EXCEPT ![2].text = {MaxNode + 1}, ![2].str = {MaxNode + 1}],
      tree |-> input.tree,
      ents |-> input.ents] :
        input \in {i \in GraphInputs :
                      is_valid_pred(i.g[2], implicits, zero_args, conj)}}

\* Family 4, same-as chains: a sentence of MaxTok words, all hanging from the
\* first; node i is the word of token i; the first node is a predicate, the
\* last an entity, a node between them an entity, a predicate, an implicit
\* copula, an implicit predicate of another word or a copula that is not
\* implicit; an
\* arc leads from every node to the next, and the first node may have an
\* arc to the third as well
StarTree ==
    [parent |-> [i \in Tokens |-> IF i = 1 THEN 0 ELSE 1],
     rel |-> [i \in Tokens |-> "dep"]]

SameAsKinds ==
    {Entity, <<TRUE, FALSE, FALSE, FALSE>>, <<TRUE, TRUE, FALSE, TRUE>>,
     <<TRUE, TRUE, FALSE, FALSE>>, <<TRUE, FALSE, FALSE, TRUE>>}

SameAsInputs ==
    {[g |-> [i \in Tokens |->
                node(kind[i][1], kind[i][2], kind[i][3], kind[i][4], {i}, {i},
                     ({i + 1} \cup (IF i = 1 /\ skip THEN {3} ELSE {}))
                        \cap Tokens)],
      tree |-> StarTree,
      ents |-> {}] :
        kind \in {k \in [Tokens -> SameAsKinds] :
                     /\ k[1] = <<TRUE, FALSE, FALSE, FALSE>>
                     /\ k[MaxTok] = Entity},
        skip \in BOOLEAN}

\* the sentences an instance with the given flags is run on: the script
\* itself runs with all three flags off
Inputs(implicits, zero_args, conj) ==
    InconsistentInputs(implicits, zero_args, conj)
    \cup SameAsInputs
    \cup (IF implicits \/ zero_args \/ conj THEN GraphInputs
          ELSE GraphInputs \cup SpanInputs)

-----------------------------------------------------------------------------
(* The instance *)

\* the mutable fields of the instance as the record the operators work on
Fields ==
    [tab |-> tok_ind_to_symbol, pred_counter |-> pred_counter,
     ent_counter |-> ent_counter, entities |-> entities,
     predicates |-> predicates, issued |-> issued, calls |-> calls,
     emitted |-> emitted,
     sym |-> "", local |-> EmptyMap, ret |-> EmptyMap, NEs_to_insert |-> {}]

\* __init__: the flags are set; nothing else exists yet
Init ==
    /\ get_implicits \in BOOLEAN
    /\ get_zero_args \in BOOLEAN
    /\ get_conj \in BOOLEAN
    /\ graph = <<>>
    /\ dep_tree = <<>>
    /\ doc_ents = {}
    /\ sentence = <<>>
    /\ pred_counter = 0
    /\ ent_counter = 0
    /\ entities = EmptyMap
    /\ predicates = EmptyMap
    /\ tok_ind_to_symbol = EmptyMap
    /\ predicate_nodes = <<>>
    /\ all_NEs_token_indices = {}
    /\ pc = "idle"
    /\ todo = <<>>
    /\ issued = <<>>
    /\ calls = <<>>
    /\ built = <<>>
    /\ emitted = {}
    /\ parsed = FALSE

flags == <<get_implicits, get_zero_args, get_conj>>

\* _init_internal_state, lines 53-61; the histories are histories of one
\* parse
reset_state ==
    /\ pred_counter' = 0
    /\ ent_counter' = 0
    /\ dep_tree' = <<>>
    /\ sentence' = <<>>
    /\ entities' = EmptyMap
    /\ predicates' = EmptyMap
    /\ tok_ind_to_symbol' = EmptyMap
    /\ todo' = <<>>
    /\ issued' = <<>>
    /\ calls' = <<>>
    /\ built' = <<>>
    /\ emitted' = {}

\* parse, line 108: _init_internal_state.  The code leaves the graph, the
\* predicate nodes and the recognizer's spans of the parse before as they
\* are; each is assigned anew before it is read (lines 112, 128, 215 and
\* 221), so they are forgotten here.  SpecReuse below keeps them.
init_internal_state ==
    /\ pc \in {"idle", "done", "failed"}
    /\ pc' = "reset"
    /\ parsed' = (pc # "idle")
    /\ reset_state
    /\ graph' = <<>>
    /\ doc_ents' = {}
    /\ predicate_nodes' = <<>>
    /\ all_NEs_token_indices' = {}
    /\ UNCHANGED flags

\* parse, lines 112-118, and parse_okr, line 128: the graph, the tree, the
\* sentence and the predicate nodes.  What the recognizer will answer for
\* the sentence (line 200) is fixed with the sentence.
load(inputs) ==
    /\ pc = "reset"
    /\ \E input \in inputs :
          /\ graph' = input.g
          /\ dep_tree' = input.tree
          /\ doc_ents' = input.ents
          /\ sentence' = [i \in DOMAIN input.tree.parent |-> Word(i)]
          /\ predicate_nodes' =
                get_predicates(input.g, get_implicits, get_zero_args, get_conj)
          /\ todo' = get_predicates(input.g, get_implicits, get_zero_args, get_conj)
    /\ pc' = "extract"
    /\ UNCHANGED <<flags, parsed, pred_counter, ent_counter, entities, predicates,
                   tok_ind_to_symbol, all_NEs_token_indices, issued, calls, built,
                   emitted>>

load_sentence == load(Inputs(get_implicits, get_zero_args, get_conj))

\* the fields an operation of the instance assigns
assigned(W) ==
    /\ tok_ind_to_symbol' = W.tab
    /\ pred_counter' = W.pred_counter
    /\ ent_counter' = W.ent_counter
    /\ predicates' = W.predicates
    /\ issued' = W.issued
    /\ calls' = W.calls
    /\ emitted' = W.emitted

\* parse_okr, lines 129-130: one turn of the loop
extract_predicate ==
    /\ pc = "extract"
    /\ todo # <<>>
    /\ matching_dep_nodes(dep_tree, graph[Head(todo)]) # {}
    /\ \E order \in Orders(SortedSeq(get_props_neighbors(graph, Head(todo)))) :
          \E W \in {parse_predicate(Fields, graph, dep_tree, predicate_nodes,
                                    Head(todo), order)} :
             /\ assigned(W)
             /\ entities' = W.entities
    /\ built' = Append(built, Head(todo))
    /\ todo' = Tail(todo)
    /\ UNCHANGED <<flags, parsed, graph, dep_tree, doc_ents, sentence, predicate_nodes,
                   all_NEs_token_indices, pc>>

\* parse_predicate, line 456: get_dep_node takes the min() of an empty list
\* (line 377), which raises ValueError; neither parse_predicate nor
\* parse_okr nor parse catches it, so the call of parse ends here and the
\* instance stays as it is
get_dep_node_raises ==
    /\ pc = "extract"
    /\ todo # <<>>
    /\ matching_dep_nodes(dep_tree, graph[Head(todo)]) = {}
    /\ pc' = "failed"
    /\ UNCHANGED <<flags, parsed, graph, dep_tree, doc_ents, sentence, predicate_nodes,
                   all_NEs_token_indices, todo, built, emitted, pred_counter,
                   ent_counter, entities, predicates, tok_ind_to_symbol, issued,
                   calls>>

\* parse_okr, line 133: self.entities = self._split_entities()
split ==
    /\ pc = "extract"
    /\ todo = <<>>
    /\ \E order \in Orders(SelectSeq(issued, LAMBDA k : k \in DOMAIN entities)) :
          \E W \in {split_entities(Fields, dep_tree, doc_ents, order)} :
             /\ assigned(W)
             /\ entities' = W.ret
    /\ all_NEs_token_indices' = NEs_token_indices(doc_ents)
    /\ pc' = "link"
    /\ UNCHANGED <<flags, parsed, graph, dep_tree, doc_ents, sentence, predicate_nodes,
                   todo, built>>

\* parse_okr, line 136: add_modifiers_as_implicits
link_modifiers ==
    /\ pc = "link"
    /\ \E order \in Orders(SortedSeq(UNION {get_props_neighbors(graph, n) :
                                                n \in DOMAIN graph})) :
          \E W \in {add_modifiers_as_implicits(Fields, graph,
                                               all_NEs_token_indices, 1, order)} :
             /\ assigned(W)
             /\ entities' = W.entities
    /\ pc' = "done"
    /\ UNCHANGED <<flags, parsed, graph, dep_tree, doc_ents, sentence, predicate_nodes,
                   all_NEs_token_indices, todo, built>>

Next ==
    \/ init_internal_state
    \/ load_sentence
    \/ extract_predicate
    \/ get_dep_node_raises
    \/ split
    \/ link_modifiers

Spec == Init /\ [][Next]_vars

\* get_okr
get_okr == [Sentence |-> sentence, Entities |-> entities, Predicates |-> predicates]

-----------------------------------------------------------------------------
(* The claims *)

\* the two families of symbols: "A<n>" and "P<n>"
IsEntitySymbol(symbol) ==
    \E n \in 0..(MaxTok * MaxTok + MaxTok) : symbol = "A" \o ToString(n)
IsPredicateSymbol(symbol) ==
    \E n \in 0..(MaxTok * MaxTok + MaxTok) : symbol = "P" \o ToString(n)

IsImplicit(record) == record.BarePredicate = IMPLICIT_SYMBOL
IsPreposition(record) == ~ IsImplicit(record) /\ record.Head.POS = "IN"
IsExplicit(record) == ~ IsImplicit(record) /\ ~ IsPreposition(record)

\* C1: after a parse, every entity symbol in the Arguments of a predicate
\* record (explicit, preposition or implicit) is a key of Entities.
C1_NoDanglingArgument ==
    pc = "done" =>
        \A p \in DOMAIN predicates :
            \A i \in DOMAIN predicates[p].Arguments :
                IsEntitySymbol(predicates[p].Arguments[i])
                    => predicates[p].Arguments[i] \in DOMAIN entities

\* a parse that produced records of the three kinds, each with an entity
\* argument
C1_Witness ==
    /\ pc = "done"
    /\ \E p, q, r \in DOMAIN predicates :
          /\ IsExplicit(predicates[p])
          /\ IsPreposition(predicates[q])
          /\ IsImplicit(predicates[r])
          /\ \A x \in {p, q, r} :
                \E i \in DOMAIN predicates[x].Arguments :
                    IsEntitySymbol(predicates[x].Arguments[i])

\* C2: after a parse, the keys of Entities are A-symbols, the keys of
\* Predicates are P-symbols and no symbol is a key of both.
C2_NamespacesDisjoint ==
    pc = "done" =>
        /\ \A k \in DOMAIN entities : IsEntitySymbol(k)
        /\ \A k \in DOMAIN predicates : IsPredicateSymbol(k)
        /\ DOMAIN entities \cap DOMAIN predicates = {}

\* C3: within a parse no symbol is issued twice, and the map from token
\* indices to symbols is injective (and holds issued symbols only).
C3_SymbolsUnique ==
    /\ \A i, j \in DOMAIN issued : i # j => issued[i] # issued[j]
    /\ \A a, b \in DOMAIN tok_ind_to_symbol :
          a # b => tok_ind_to_symbol[a] # tok_ind_to_symbol[b]
    /\ \A a \in DOMAIN tok_ind_to_symbol : tok_ind_to_symbol[a] \in Range(issued)

\* symbols of both families were issued, one of them by a direct call of
\* _gensym_pred (it is bound to no token)
C3_Witness ==
    /\ pc = "done"
    /\ \E i, j, k \in DOMAIN issued :
          /\ IsEntitySymbol(issued[i])
          /\ IsPredicateSymbol(issued[j])
          /\ j # k
          /\ IsPredicateSymbol(issued[k])
          /\ \A a \in DOMAIN tok_ind_to_symbol : tok_ind_to_symbol[a] # issued[k]
    /\ Cardinality(DOMAIN tok_ind_to_symbol) >= 3

\* C4: within a parse, a call of get_element_symbol for a token index that an
\* earlier call was made for returns the symbol the earlier call returned and
\* generates nothing, and the index is still bound to that symbol.
C4_LookupIdempotent ==
    /\ \A i, j \in DOMAIN calls :
          (i < j /\ calls[i].ind = calls[j].ind)
              => calls[j].sym = calls[i].sym /\ calls[j].made = 0
    /\ \A i \in DOMAIN calls :
          /\ calls[i].ind \in DOMAIN tok_ind_to_symbol
          /\ tok_ind_to_symbol[calls[i].ind] = calls[i].sym

\* two calls for one index, with calls for other indices and the generation
\* of other symbols in between
C4_Witness ==
    \E i, j, k \in DOMAIN calls :
        /\ i < k /\ k < j
        /\ calls[i].ind = calls[j].ind
        /\ calls[k].ind # calls[i].ind
        /\ calls[k].made = 1

\* the selection rule as the specification states it
Qualifies(n) ==
    /\ graph[n].isPredicate
    /\ (get_zero_args \/ graph[n].nbrs # {})
    /\ (get_implicits \/ ~ graph[n].implicit)
    /\ (get_conj \/ ~ graph[n].conj)

\* the records parse_predicate built from node n (they carry its lemma)
RecordsOf(n) ==
    {p \in DOMAIN predicates :
        IsExplicit(predicates[p])
        /\ predicates[p].Head.Lemma = "lemma" \o ToString(n)}

\* C5: once predicate extraction is over, parse_predicate has been called on
\* exactly the nodes that satisfy the selection rule, and Predicates holds no
\* record built from any other node.
C5_SelectionRule ==
    pc \in {"link", "done"} =>
        \A n \in DOMAIN graph :
            /\ n \in Range(built) <=> Qualifies(n)
            /\ ~ Qualifies(n) => RecordsOf(n) = {}

\* with get_zero_args off, a predicate node without neighbors has no record
\* while another node has one
C5_Witness ==
    /\ pc = "done"
    /\ ~ get_zero_args
    /\ \E n, m \in DOMAIN graph :
          /\ graph[n].isPredicate /\ graph[n].nbrs = {}
          /\ ~ graph[n].implicit /\ ~ graph[n].conj
          /\ RecordsOf(n) = {}
          /\ Qualifies(m) /\ RecordsOf(m) # {}

\* the nodes parse_predicate registered as entities: the explicit
\* non-predicate neighbors of the predicate nodes
ArgumentNodes ==
    {n \in DOMAIN graph :
        /\ n \notin Range(predicate_nodes)
        /\ ~ graph[n].implicit
        /\ \E p \in Range(built) : n \in get_props_neighbors(graph, p)}

HeadOf(n) == get_node_ind(graph[n])
SymbolOf(tok) == tok_ind_to_symbol[tok]
SingleWord(tok) == << <<Word(tok)>>, <<tok - 1>> >>
InNE(tok) == tok - 1 \in NEs_token_indices(doc_ents)

\* C6: after a parse, an entity of predicate extraction whose head token lies
\* inside a named entity has, under its symbol, the text and the index range
\* of the named entity, and the named entity is stored under no symbol other
\* than those of such entities.
C6_NamedEntityPrecedence ==
    pc = "done" =>
        \A n \in ArgumentNodes : \A e \in doc_ents :
            HeadOf(n) - 1 \in Range(NE_to_indices(e)) =>
                /\ SymbolOf(HeadOf(n)) \in DOMAIN entities
                /\ entities[SymbolOf(HeadOf(n))] = NE_to_entity(e)
                /\ \A s \in DOMAIN entities :
                      entities[s] = NE_to_entity(e) =>
                          \E m \in ArgumentNodes :
                              /\ s = SymbolOf(HeadOf(m))
                              /\ HeadOf(m) - 1 \in Range(NE_to_indices(e))

\* the predicates the splitter stored while it processed the span of head
\* symbol hs, for token tok
Emitted(hs, tok) == {x \in emitted : x.span = hs /\ x.tok = tok}

\* the preposition predicate of head symbol hs, preposition p and child c
IsPrepositionPredicate(record, hs, p, c) ==
    /\ record.Template = <<Placeholder(hs), Word(p), Placeholder(SymbolOf(c))>>
    /\ record.Arguments = <<hs, SymbolOf(c)>>

\* what the preposition split is said to yield for the span of node n, a
\* preposition p and its child c
PrepositionSplit(n, p, c) ==
    LET hs == SymbolOf(HeadOf(n))
    IN  /\ hs \in DOMAIN entities
        /\ entities[hs] = SingleWord(HeadOf(n))
        /\ c \in DOMAIN tok_ind_to_symbol
        /\ SymbolOf(c) # hs
        /\ SymbolOf(c) \in DOMAIN entities
        /\ entities[SymbolOf(c)] = SingleWord(c)
        /\ \E x \in Emitted(hs, p) :
              x.key = SymbolOf(p) /\ IsPrepositionPredicate(x.record, hs, p, c)
        /\ \A x \in Emitted(hs, p) \cup Emitted(hs, c) : ~ IsImplicit(x.record)

\* a span of node n that holds a preposition p and its only child c, neither
\* inside a named entity
PrepositionInSpan(n, p, c) ==
    /\ p \in graph[n].str /\ c \in graph[n].str
    /\ dep_tree.rel[p] = "prep"
    /\ children(dep_tree, p) = {c}
    /\ ~ InNE(p) /\ ~ InNE(c)

\* C7 as stated: when the splitter is done, every span with a preposition and
\* its only child in it has yielded the single-word entity of the head, a
\* distinct single-word entity of the child, the preposition predicate, and
\* no implicit proposition for the preposition or the child.
C7_PrepositionSplit ==
    pc = "link" =>
        \A n \in ArgumentNodes : \A p, c \in DOMAIN dep_tree.parent :
            PrepositionInSpan(n, p, c) => PrepositionSplit(n, p, c)

\* C7 as amended: the same, for a child that is a pobj and a head that is a
\* token of the span, outside every named entity, and neither the
\* preposition nor the child.
C7_PrepositionSplitOfPobj ==
    pc = "link" =>
        \A n \in ArgumentNodes : \A p, c \in DOMAIN dep_tree.parent :
            (/\ PrepositionInSpan(n, p, c)
             /\ dep_tree.rel[c] = "pobj"
             /\ HeadOf(n) \in graph[n].str
             /\ ~ InNE(HeadOf(n))
             /\ HeadOf(n) \notin {p, c})
                => PrepositionSplit(n, p, c)

\* a span with head, preposition and pobj, and a second span that holds the
\* same preposition and child
C7_Witness ==
    /\ pc = "link"
    /\ \E n, m \in ArgumentNodes : \E p, c \in DOMAIN dep_tree.parent :
          /\ PrepositionInSpan(n, p, c)
          /\ dep_tree.rel[c] = "pobj"
          /\ ~ InNE(HeadOf(n))
          /\ HeadOf(n) \notin {p, c}
          /\ m # n
          /\ PrepositionInSpan(m, p, c)

\* the nodes the modifier linker may register as entities
ModifierNodes ==
    {m \in DOMAIN graph :
        /\ ~ graph[m].isPredicate
        /\ ~ graph[m].implicit
        /\ \E n \in DOMAIN graph : m \in get_props_neighbors(graph, n)}

\* C8: after a parse, a determiner of an entity span, outside every named
\* entity, is no entity of its own and is in the index tuple of no entity
\* that an argument (a template placeholder) of a predicate refers to.
C8_DeterminerExclusion ==
    pc = "done" =>
        \A t \in DOMAIN dep_tree.parent :
            (/\ dep_tree.rel[t] = "det"
             /\ ~ InNE(t)
             /\ \E n \in ArgumentNodes \cup ModifierNodes : t \in graph[n].str)
                =>
                /\ \A s \in DOMAIN entities : entities[s] # SingleWord(t)
                /\ \A q \in DOMAIN predicates :
                      \A i \in DOMAIN predicates[q].Arguments :
                          predicates[q].Arguments[i] \in DOMAIN entities =>
                              t - 1 \notin
                                  Range(entities[predicates[q].Arguments[i]][2])

\* an entity record of one word, or of exactly a recognized named entity
IsAtomicOrNE(entity) ==
    \/ Len(entity[2]) = 1
    \/ \E e \in doc_ents : entity = NE_to_entity(e)

\* C9: the modifier linker leaves every record of the splitter as it is, and
\* every entity record of the resulting OKR is a single word or exactly a
\* named entity.
C9_EntitiesFinal ==
    [][pc = "link" =>
          /\ \A s \in DOMAIN entities :
                s \in DOMAIN entities' /\ entities'[s] = entities[s]
          /\ \A s \in DOMAIN entities' : IsAtomicOrNE(entities'[s])]_vars

Count(seq, x) == Cardinality({i \in DOMAIN seq : seq[i] = x})

IsPlaceholder(element) == \E s \in Range(issued) : element = Placeholder(s)

\* the token index a template element stands at: the index of the word, or
\* the head token index the symbol of the placeholder is bound to
ElementIndexes(element) ==
    {k \in DOMAIN dep_tree.parent \cup DOMAIN tok_ind_to_symbol :
        \/ element = Word(k)
        \/ k \in DOMAIN tok_ind_to_symbol
           /\ element = Placeholder(tok_ind_to_symbol[k])}

\* C10: in every predicate record the placeholders of the Template are the
\* symbols of Arguments, each as often as in Arguments; the Template of an
\* explicit predicate is made of the words of the bare predicate and the
\* placeholders, in ascending order of token index.
C10_TemplateMatchesArguments ==
    \A q \in DOMAIN predicates :
        LET record == predicates[q]
        IN  /\ \A i \in DOMAIN record.Template :
                  IsPlaceholder(record.Template[i]) =>
                      \E a \in Range(record.Arguments) :
                          record.Template[i] = Placeholder(a)
            /\ \A a \in Range(record.Arguments) :
                  Count(record.Template, Placeholder(a)) = Count(record.Arguments, a)
            /\ IsExplicit(record) =>
                  /\ SelectSeq(record.Template, LAMBDA e : ~ IsPlaceholder(e))
                        = record.BarePredicate[1]
                  /\ \A i, j \in DOMAIN record.Template :
                        i < j =>
                            \E a \in ElementIndexes(record.Template[i]) :
                                \E b \in ElementIndexes(record.Template[j]) :
                                    a <= b

\* an explicit predicate whose bare predicate has a word after an argument,
\* a preposition predicate and an implicit proposition
C10_Witness ==
    /\ pc = "done"
    /\ \E q, r, u \in DOMAIN predicates :
          /\ IsExplicit(predicates[q])
          /\ Len(predicates[q].Arguments) >= 2
          /\ \E i, j \in DOMAIN predicates[q].Template :
                /\ i < j
                /\ IsPlaceholder(predicates[q].Template[i])
                /\ ~ IsPlaceholder(predicates[q].Template[j])
          /\ IsPreposition(predicates[r])
          /\ IsImplicit(predicates[u])

-----------------------------------------------------------------------------
(* A second run of the pipeline, on given inputs, with the neighbor sets   *)
(* and the entity map iterated in ascending order.                         *)

\* the fields as _init_internal_state leaves them
reset_fields ==
    [tab |-> EmptyMap, pred_counter |-> 0, ent_counter |-> 0,
     entities |-> EmptyMap, predicates |-> EmptyMap, issued |-> <<>>,
     calls |-> <<>>, emitted |-> {},
     sym |-> "", local |-> EmptyMap, ret |-> EmptyMap, NEs_to_insert |-> {}]

RECURSIVE parse_predicates(_, _, _, _, _)
\* parse_okr, lines 129-130: the loop over the predicate nodes
parse_predicates(W, g, tree, pred_nodes, rest) ==
    IF rest = <<>> THEN W
    ELSE parse_predicates(
             parse_predicate(W, g, tree, pred_nodes, Head(rest),
                             SortedSeq(get_props_neighbors(g, Head(rest)))),
             g, tree, pred_nodes, Tail(rest))

\* the symbols of the entity map, in the order in which they were issued
entity_symbols(W) == SelectSeq(W.issued, LAMBDA k : k \in DOMAIN W.entities)

\* parse_okr, line 133: self.entities = self._split_entities()
split_step(W, tree, ents) == split_entities(W, tree, ents, entity_symbols(W))

\* the value _split_entities returns becomes the entity map
returned_entities(W) == [W EXCEPT !.entities = W.ret]

\* parse_okr, line 136
link_step(W, g, ents) ==
    add_modifiers_as_implicits(
        W, g, NEs_token_indices(ents), 1,
        SortedSeq(UNION {get_props_neighbors(g, n) : n \in DOMAIN g}))

\* parse_okr on a reset instance
parse_okr(g, tree, ents, pred_nodes) ==
    link_step(returned_entities(
                  split_step(parse_predicates(reset_fields, g, tree, pred_nodes,
                                              pred_nodes),
                             tree, ents)),
              g, ents)

\* a whole parse of the sentence whose graph, tree and named entities are
\* given
parse(g, tree, ents, implicits, zero_args, conj) ==
    parse_okr(g, tree, ents, get_predicates(g, implicits, zero_args, conj))

\* the symbol table and the two mappings of a record are those of the
\* instance
SameResult(W) ==
    /\ tok_ind_to_symbol = W.tab
    /\ entities = W.entities
    /\ predicates = W.predicates

\* C11: when a parse is over, the symbol of every token index and the
\* Entities and Predicates mappings are those of a second run on the same
\* graph, tree and named entities that iterates the neighbor sets and the
\* entity map in ascending order, whatever the orders of this run were.
C11_Determinism ==
    pc = "done" =>
        SameResult(parse(graph, dep_tree, doc_ents,
                         get_implicits, get_zero_args, get_conj))

-----------------------------------------------------------------------------
(* An instance that is used for one sentence after another, with what      *)
(* _init_internal_state leaves of the sentence before.                     *)

\* _init_internal_state without the reset of the symbol table (line 61)
init_internal_state_only_mutant ==
    /\ pc \in {"idle", "done", "failed"}
    /\ pc' = "reset"
    /\ parsed' = (pc # "idle")
    /\ pred_counter' = 0
    /\ ent_counter' = 0
    /\ dep_tree' = <<>>
    /\ sentence' = <<>>
    /\ entities' = EmptyMap
    /\ predicates' = EmptyMap
    /\ todo' = <<>>
    /\ issued' = <<>>
    /\ calls' = <<>>
    /\ built' = <<>>
    /\ emitted' = {}
    /\ UNCHANGED <<flags, tok_ind_to_symbol, graph, doc_ents, predicate_nodes,
                   all_NEs_token_indices>>

\* parse, line 108: _init_internal_state and nothing else: the graph, the
\* predicate nodes and the token indices of the named entities stay those
\* of the sentence before
init_internal_state_only ==
    /\ pc \in {"idle", "done", "failed"}
    /\ pc' = "reset"
    /\ parsed' = (pc # "idle")
    /\ reset_state
    /\ UNCHANGED <<flags, graph, doc_ents, predicate_nodes, all_NEs_token_indices>>

\* the sentences of a run of several: those of family 2 in which every word
\* hangs from the first, and those of family 1 in which the first node has
\* every later node as a neighbor, the second node the third, and the nodes
\* after the second are entities
ReuseInputs ==
    {input \in SpanInputs : \A i \in Tokens \ {1} :
        input.tree.parent[i] = 1 /\ input.tree.rel[i] = "dep"}
    \cup {input \in GraphInputs :
              /\ input.g[1].nbrs = {2, 3}
              /\ input.g[2].nbrs = {3}
              /\ \A n \in Nodes \ {1, 2} :
                    ~ input.g[n].isPredicate /\ input.g[n].nbrs = {}}

\* the graphs of family 3 made of the graphs of family 1 in ReuseInputs
InconsistentReuseInputs(implicits, zero_args, conj) ==
    {input \in InconsistentInputs(implicits, zero_args, conj) :
        /\ input.g[1].nbrs = {2, 3}
        /\ input.g[2].nbrs = {3}
        /\ \A n \in Nodes \ {1, 2} :
              ~ input.g[n].isPredicate /\ input.g[n].nbrs = {}}

\* the next sentence of the run
load_next_sentence ==
    load(ReuseInputs
         \cup InconsistentReuseInputs(get_implicits, get_zero_args, get_conj))

NextReuse ==
    \/ init_internal_state_only
    \/ load_next_sentence
    \/ extract_predicate
    \/ get_dep_node_raises
    \/ split
    \/ link_modifiers

SpecReuse == Init /\ [][NextReuse]_vars

RECURSIVE extracted(_, _, _, _, _)
\* what the loop of parse_okr, lines 129-130, can leave of the records Ws,
\* over the orders in which the neighbor sets can be iterated
extracted(Ws, g, tree, pred_nodes, rest) ==
    IF rest = <<>> THEN Ws
    ELSE extracted({parse_predicate(W, g, tree, pred_nodes, Head(rest), order) :
                       W \in Ws,
                       order \in Orders(SortedSeq(get_props_neighbors(g, Head(rest))))},
                   g, tree, pred_nodes, Tail(rest))

\* what line 133 can leave, over the orders of the entity map
split_of(Ws, tree, ents) ==
    UNION {{returned_entities(split_entities(W, tree, ents, order)) :
               order \in Orders(entity_symbols(W))} : W \in Ws}

\* what line 136 can leave
linked(Ws, g, ents) ==
    {add_modifiers_as_implicits(W, g, NEs_token_indices(ents), 1, order) :
        W \in Ws,
        order \in Orders(SortedSeq(UNION {get_props_neighbors(g, n) :
                                             n \in DOMAIN g}))}

\* the records a parse of the sentence can leave on an instance that was
\* just constructed
fresh_parses(g, tree, ents, implicits, zero_args, conj) ==
    linked(split_of(extracted({reset_fields}, g, tree,
                              get_predicates(g, implicits, zero_args, conj),
                              get_predicates(g, implicits, zero_args, conj)),
                    tree, ents),
           g, ents)

\* C12: every parse of an instance starts with both counters at zero and
\* the entity map, the predicate map and the symbol table empty, and when
\* it is over the symbol table and the OKR are those of a parse of the same
\* sentence on an instance just constructed with the same flags.
C12_ResetPerParse ==
    /\ pc = "reset" =>
          /\ pred_counter = 0 /\ ent_counter = 0
          /\ entities = EmptyMap /\ predicates = EmptyMap
          /\ tok_ind_to_symbol = EmptyMap
    /\ pc = "done" =>
          \E W \in fresh_parses(graph, dep_tree, doc_ents,
                                get_implicits, get_zero_args, get_conj) :
             SameResult(W)

\* a second sentence was parsed on the instance, with entities, predicates
\* and a named entity, after a sentence whose named entity was elsewhere
C12_Witness ==
    /\ pc = "done"
    /\ parsed
    /\ entities # EmptyMap
    /\ \E s \in DOMAIN predicates : IsImplicit(predicates[s])
    /\ doc_ents # {}
    /\ ent_counter >= 3

-----------------------------------------------------------------------------
\* C13: after a parse that failed, get_okr exposes no entity and no
\* predicate that was built before the failure.
C13_NoPartialOKR ==
    pc = "failed" =>
        /\ get_okr.Entities = EmptyMap
        /\ get_okr.Predicates = EmptyMap

-----------------------------------------------------------------------------
\* C14: no call of get_element_symbol returns a symbol of the other family
\* than the generator it was passed: a call with _gensym_ent returns an
\* A-symbol and a call with _gensym_pred a P-symbol (a call for an index
\* bound to the other kind fails instead of returning).
C14_CollisionFails ==
    \A i \in DOMAIN calls :
        /\ calls[i].kind = "A" => IsEntitySymbol(calls[i].sym)
        /\ calls[i].kind = "P" => IsPredicateSymbol(calls[i].sym)

-----------------------------------------------------------------------------
is_implicit_copula(g, m) == g[m].implicit /\ g[m].copula

RECURSIVE CopulaClosure(_, _)
\* the least set that holds S, a set of implicit copulas, and every implicit
\* copula an arc away from one of its members
CopulaClosure(g, S) ==
    LET T == S \cup {m \in UNION {g[c].nbrs : c \in S} : is_implicit_copula(g, m)}
    IN  IF T = S THEN S ELSE CopulaClosure(g, T)

\* the implicit copulas among the neighbors of n
copula_neighbors(g, n) == {m \in g[n].nbrs : is_implicit_copula(g, m)}

\* the nodes that are no implicit copula and end a path from n whose nodes
\* in between are all implicit copulas: the nodes in between are the
\* implicit copulas reached from the neighbors of n through implicit copulas
SameAsReachable(g, n) ==
    {m \in g[n].nbrs
            \cup UNION {g[c].nbrs : c \in CopulaClosure(g, copula_neighbors(g, n))} :
        ~ is_implicit_copula(g, m)}

\* C15: for every node of the graph of the sentence, get_props_neighbors
\* returns exactly the nodes that are no implicit copula and are reachable
\* from it by a path whose intermediate nodes are all implicit copulas,
\* whatever the length of the chain.
C15_SameAsTraversal ==
    \A n \in DOMAIN graph :
        get_props_neighbors(graph, n) = SameAsReachable(graph, n)

\* a predicate was extracted whose only proposition neighbor lies behind a
\* chain of two implicit copulas
C15_Witness ==
    /\ pc = "done"
    /\ predicates # EmptyMap
    /\ \E n \in Range(built) :
          \E a \in graph[n].nbrs :
              \E b \in graph[a].nbrs :
                  \E m \in graph[b].nbrs :
                      /\ is_implicit_copula(graph, a)
                      /\ is_implicit_copula(graph, b)
                      /\ get_props_neighbors(graph, n) = {m}

=============================================================================
